---- MODULE Spec2Model ----
(***************************************************************************)
(* Rule-based fraud scoring of UPI transactions.                           *)
(*                                                                         *)
(* Three rule-set implementations live in the repository:                  *)
(*   - RuleBasedFraudDetector.predict, wrapped by SimpleScorer             *)
(*     (scripts/03_train_models.py, pickled to models/scorer.pkl);         *)
(*   - FallbackScorer of app.py (create_fallback_scorer);                  *)
(*   - FallbackScorer of scripts/04_run_demo.py (create_fallback_scorer).  *)
(* A feature record is a Python dict: a function whose domain is the set   *)
(* of keys that are present.                                               *)
(***************************************************************************)
EXTENDS Integers, Sequences, FiniteSets, TLC

VARIABLES
    program,        \* which entry point runs: "app", "run_demo", "train_models"
    scorer,         \* class of the scorer object the program holds, or "None"
    transaction,    \* the feature record (dict) of the current request
    total_score,    \* local score / total_score after the rule loop, before min(.., 100)
    reasons,        \* local reasons / triggered_rules after the rule loop
    result,         \* dict returned by calculate_final_score, NoResult before the call
    transactions,   \* the list handed to analyze_batch
    batch_results,  \* outcome of analyze_batch: the returned list, or the exception raised
    top_risky,      \* the rows shown under "top risky transactions"
    risk_counts,    \* the per-tier counts of the batch summary
    rule_engine_score,  \* rule-set score handed to the fusion policy
    external_scores,    \* scores of the external sources that are present
    unified_score,      \* result of the fusion, a fraction [num, den]
    risk_levels,        \* the bands config.RISK_LEVELS holds in this deployment
    self_rules,         \* self.rules of the scorer object (shared by its callers)
    calls,              \* per caller: the frame of its call in progress
    returned,           \* the calls completed so far: caller, record, result
    scenario_index,     \* main.py run_demo_scenarios: scenarios run so far
    sample_size,        \* main.py analyze_batch: len(sample_features)
    entered,            \* main.py analyze_batch: the number the user entered
    n_txns,             \* main.py analyze_batch: n_txns after the min
    analysed_rows,      \* main.py analyze_batch: rows handed to the scorer
    page,               \* app.py main: the page selected in the sidebar
    phase,              \* app.py main: how far the current script run has got
    data,               \* 02_create_features.py: the rows read from the CSV
    row_index,          \* 02_create_features.py: rows processed so far
    features,           \* 02_create_features.py: the features list
    labels              \* 02_create_features.py: the labels list

vars == <<program, scorer, transaction, total_score, reasons, result,
          transactions, batch_results, top_risky, risk_counts,
          rule_engine_score, external_scores, unified_score, risk_levels,
          self_rules, calls, returned,
          scenario_index, sample_size, entered, n_txns, analysed_rows,
          page, phase, data, row_index, features, labels>>

(* state of the single-transaction path and of the batch path *)
score_vars == <<transaction, total_score, reasons, result>>

batch_vars == <<transactions, batch_results, top_risky, risk_counts>>

fusion_vars == <<rule_engine_score, external_scores, unified_score>>

config_vars == <<risk_levels>>

call_vars == <<calls, returned>>

scorer_vars == <<self_rules, calls, returned>>

cli_vars == <<scenario_index, sample_size, entered, n_txns, analysed_rows>>

session_vars == <<page, phase>>

feature_vars == <<data, row_index, features, labels>>

----------------------------------------------------------------------------
(* Bounds of the model *)

MaxTxns == 9                            \* txns_last_1h ranges over 0..MaxTxns
MaxTotal == 150                         \* rule totals handed to the classifier: 0..MaxTotal
MaxBatch == 3                           \* longest list handed to analyze_batch

AmountValues == {1500, 10000, 20000, 50000, 50001}
HourValues == {2, 3, 5, 6, 15, 22, 23}
TxnsValues == 0..MaxTxns
RecipientValues == {0, 1}
AmountLogValues == {12, 13}

Fields == {"amount", "hour", "txns_last_1h", "is_new_recipient", "amount_log"}

FieldValues(k) ==
    CASE k = "amount" -> AmountValues
      [] k = "hour" -> HourValues
      [] k = "txns_last_1h" -> TxnsValues
      [] k = "is_new_recipient" -> RecipientValues
      [] k = "amount_log" -> AmountLogValues

EmptyRecord == [k \in {} |-> 0]

NoResult == [k \in {} |-> 0]

(* no external source present; no fusion computed yet *)
NoExternal == [k \in {} |-> 0]

NotFused == [num |-> -1, den |-> 1]

(* the summary before any batch has been analysed *)
NoCounts == [HIGH |-> 0, MEDIUM |-> 0, LOW |-> 0]

(* batch_results before analyze_batch has been called *)
NotAnalyzed == [status |-> "not_analyzed", error |-> "", results |-> <<>>]

----------------------------------------------------------------------------
(* config.py *)

RISK_LEVELS ==
    [LOW |-> <<0, 40>>, MEDIUM |-> <<40, 70>>, HIGH |-> <<70, 100>>]

(* a weight vector that does not sum to 1 *)
SCORE_WEIGHTS_unnormalised ==
    [rule_engine |-> 3, xgboost |-> 4, isolation_forest |-> 4]

(* SCORE_WEIGHTS 0.3 / 0.4 / 0.3, in tenths *)
SCORE_WEIGHTS ==
    [rule_engine |-> 3, xgboost |-> 4, isolation_forest |-> 3]

----------------------------------------------------------------------------
(* dict.get(key, default) *)

Get(d, k, default) == IF k \in DOMAIN d THEN d[k] ELSE default

Min(a, b) == IF a < b THEN a ELSE b

----------------------------------------------------------------------------
(* scripts/03_train_models.py: RuleBasedFraudDetector *)

RuleBasedFraudDetector_rules ==
    << [condition |-> "_check_amount_gt_50000", score |-> 40,
        description |-> "Amount > ₹50,000"],
       [condition |-> "_check_amount_gt_10000", score |-> 30,
        description |-> "Amount > ₹10,000"],
       [condition |-> "_check_hour_lt_6", score |-> 25,
        description |-> "Transaction during late night (12AM-6AM)"],
       [condition |-> "_check_hour_gt_22", score |-> 20,
        description |-> "Transaction during suspicious hours (10PM-12AM)"],
       [condition |-> "_check_amount_log_gt_12", score |-> 35,
        description |-> "Exceptionally high amount"] >>

RuleBasedFraudDetector_thresholds == [HIGH |-> 70, MEDIUM |-> 40, LOW |-> 0]

_check_amount_gt_50000(t) == Get(t, "amount", 0) > 50000

(* the threshold written with a zero missing *)
_check_amount_gt_10000_typo(t) == Get(t, "amount", 0) > 1000

_check_amount_gt_10000(t) == Get(t, "amount", 0) > 10000

(* the default hour 0 instead of 12 *)
_check_hour_lt_6_default0(t) == Get(t, "hour", 0) < 6

_check_hour_lt_6(t) == Get(t, "hour", 12) < 6

_check_hour_gt_22(t) == Get(t, "hour", 12) > 22

_check_amount_log_gt_12(t) == Get(t, "amount_log", 0) > 12

RuleCondition(c, t) ==
    CASE c = "_check_amount_gt_50000" -> _check_amount_gt_50000(t)
      [] c = "_check_amount_gt_10000" -> _check_amount_gt_10000(t)
      [] c = "_check_hour_lt_6" -> _check_hour_lt_6(t)
      [] c = "_check_hour_gt_22" -> _check_hour_gt_22(t)
      [] c = "_check_amount_log_gt_12" -> _check_amount_log_gt_12(t)

(* the loop "for rule in self.rules" of predict, from rule i on:
   returns the pair <<total_score, triggered_rules>> *)
RECURSIVE PredictLoop(_, _, _, _)
PredictLoop(t, i, acc, triggered) ==
    IF i > Len(RuleBasedFraudDetector_rules) THEN <<acc, triggered>>
    ELSE LET rule == RuleBasedFraudDetector_rules[i] IN
         IF RuleCondition(rule.condition, t)
         THEN PredictLoop(t, i + 1, acc + rule.score,
                          Append(triggered, rule.description))
         ELSE PredictLoop(t, i + 1, acc, triggered)

PredictTotal(t) == PredictLoop(t, 1, 0, <<>>)[1]

(* the cap left out *)
PredictCap_uncapped(s) == s

PredictCap(s) == Min(s, 100)

PredictLevel(s) ==
    IF s >= RuleBasedFraudDetector_thresholds.HIGH THEN "HIGH"
    ELSE IF s >= RuleBasedFraudDetector_thresholds.MEDIUM THEN "MEDIUM"
    ELSE "LOW"

PredictAction(s) ==
    IF s >= RuleBasedFraudDetector_thresholds.HIGH
    THEN "BLOCK - Requires additional verification"
    ELSE IF s >= RuleBasedFraudDetector_thresholds.MEDIUM
    THEN "WARN - Review recommended"
    ELSE "ALLOW - Appears legitimate"

PredictTriggered(t) == PredictLoop(t, 1, 0, <<>>)[2]

(* predict after the rule loop: cap, risk level, returned dict *)
PredictResult(total, triggered_rules) ==
    LET s == PredictCap(total) IN
    [risk_score |-> s,
     risk_level |-> PredictLevel(s),
     suggested_action |-> PredictAction(s),
     rules_triggered |-> triggered_rules]

predict(t) == PredictResult(PredictTotal(t), PredictTriggered(t))

(* SimpleScorer.calculate_final_score *)
SimpleScorer_calculate_final_score(t) == predict(t)

----------------------------------------------------------------------------
(* app.py: create_fallback_scorer / FallbackScorer.calculate_final_score.
   Each rule maps the pair <<score, reasons>> to the pair after the rule. *)

(* the upper amount threshold taken inclusive *)
AppRuleAmount_inclusive(t, st) ==
    LET amount == Get(t, "amount", 0) IN
    IF amount >= 50000
    THEN <<st[1] + 40, Append(st[2], "Amount > ₹50,000")>>
    ELSE IF amount > 10000
    THEN <<st[1] + 30, Append(st[2], "Amount > ₹10,000")>>
    ELSE st

AppRuleAmount(t, st) ==
    LET amount == Get(t, "amount", 0) IN
    IF amount > 50000
    THEN <<st[1] + 40, Append(st[2], "Amount > ₹50,000")>>
    ELSE IF amount > 10000
    THEN <<st[1] + 30, Append(st[2], "Amount > ₹10,000")>>
    ELSE st

AppRuleTime(t, st) ==
    LET hour == Get(t, "hour", 12) IN
    IF hour < 6
    THEN <<st[1] + 25, Append(st[2], "Late night transaction (12AM-6AM)")>>
    ELSE st

(* the velocity rule given an upper limit *)
AppRuleVelocity_band(t, st) ==
    LET txns_last_1h == Get(t, "txns_last_1h", 0) IN
    IF txns_last_1h > 5 /\ txns_last_1h < 9
    THEN <<st[1] + 30,
           Append(st[2], "High velocity (" \o ToString(txns_last_1h)
                         \o " transactions/hour)")>>
    ELSE st

AppRuleVelocity(t, st) ==
    LET txns_last_1h == Get(t, "txns_last_1h", 0) IN
    IF txns_last_1h > 5
    THEN <<st[1] + 30,
           Append(st[2], "High velocity (" \o ToString(txns_last_1h)
                         \o " transactions/hour)")>>
    ELSE st

AppRuleNewRecipient(t, st) ==
    IF Get(t, "is_new_recipient", 0) = 1
    THEN <<st[1] + 25, Append(st[2], "First time sending to this recipient")>>
    ELSE st

AppRules(t) ==
    AppRuleNewRecipient(t,
        AppRuleVelocity(t, AppRuleTime(t, AppRuleAmount(t, <<0, <<>>>>))))

AppTotal(t) == AppRules(t)[1]

AppCap(s) == Min(s, 100)

(* the thresholds compared with > instead of >= *)
AppLevel_strict(s) ==
    IF s > 70 THEN "HIGH" ELSE IF s > 40 THEN "MEDIUM" ELSE "LOW"

AppLevel(s) ==
    IF s >= 70 THEN "HIGH" ELSE IF s >= 40 THEN "MEDIUM" ELSE "LOW"

AppAction(s) ==
    IF s >= 70 THEN "BLOCK - Requires additional verification"
    ELSE IF s >= 40 THEN "WARN - Review recommended"
    ELSE "ALLOW - Appears legitimate"

AppReasons(t) == AppRules(t)[2]

(* the placeholders weighted into the score with config.SCORE_WEIGHTS *)
AppResult_fused(total, rs) ==
    LET s == AppCap(total)
        fused == (3 * s + 4 * 50 + 3 * 0) \div 10
    IN  [risk_score |-> fused,
         risk_level |-> AppLevel(fused),
         suggested_action |-> AppAction(fused),
         explanations |-> rs,
         breakdown |-> [rule_engine_score |-> s,
                        ml_probability |-> "0.5",
                        anomaly_score |-> 0]]

(* calculate_final_score after the rules: cap, risk level, returned dict *)
AppResult(total, rs) ==
    LET s == AppCap(total) IN
    [risk_score |-> s,
     risk_level |-> AppLevel(s),
     suggested_action |-> AppAction(s),
     explanations |-> rs,
     breakdown |-> [rule_engine_score |-> s,
                    ml_probability |-> "0.5",
                    anomaly_score |-> 0]]

App_calculate_final_score(t) == AppResult(AppTotal(t), AppReasons(t))

----------------------------------------------------------------------------
(* scripts/04_run_demo.py: create_fallback_scorer / FallbackScorer *)

Demo_rules ==
    << <<"Amount > ₹50,000", "amount_gt_50000", 40>>,
       <<"Amount > ₹10,000", "amount_gt_10000", 30>>,
       <<"Late night (12AM-6AM)", "hour_lt_6", 25>>,
       <<"Suspicious hours (10PM-12AM)", "hour_gt_22", 20>>,
       <<"New recipient", "is_new_recipient", 25>>,
       <<"High velocity", "txns_last_1h_gt_5", 30>> >>

(* the lambdas of self.rules *)
DemoCondition(c, x) ==
    CASE c = "amount_gt_50000" -> Get(x, "amount", 0) > 50000
      [] c = "amount_gt_10000" -> Get(x, "amount", 0) > 10000
      [] c = "hour_lt_6" -> Get(x, "hour", 12) < 6
      [] c = "hour_gt_22" -> Get(x, "hour", 12) > 22
      [] c = "is_new_recipient" -> Get(x, "is_new_recipient", 0) = 1
      [] c = "txns_last_1h_gt_5" -> Get(x, "txns_last_1h", 0) > 5

(* the loop "for desc, condition, points in self.rules", from rule i on:
   returns the pair <<score, reasons>> *)
RECURSIVE DemoLoop(_, _, _, _)
DemoLoop(t, i, acc, rs) ==
    IF i > Len(Demo_rules) THEN <<acc, rs>>
    ELSE LET desc == Demo_rules[i][1]
             condition == Demo_rules[i][2]
             points == Demo_rules[i][3]
         IN  IF DemoCondition(condition, t)
             THEN DemoLoop(t, i + 1, acc + points, Append(rs, desc))
             ELSE DemoLoop(t, i + 1, acc, rs)

DemoTotal(t) == DemoLoop(t, 1, 0, <<>>)[1]

DemoCap(s) == Min(s, 100)

DemoLevel(s) ==
    IF s >= 70 THEN "HIGH" ELSE IF s >= 40 THEN "MEDIUM" ELSE "LOW"

(* the MEDIUM branch carrying the action of the LOW branch *)
DemoAction_copied(s) ==
    IF s >= 70 THEN "BLOCK - Requires additional verification"
    ELSE "ALLOW - Appears legitimate"

DemoAction(s) ==
    IF s >= 70 THEN "BLOCK - Requires additional verification"
    ELSE IF s >= 40 THEN "WARN - Review recommended"
    ELSE "ALLOW - Appears legitimate"

(* the slice taken from the second reason on *)
Top3_skipping(rs) == SubSeq(rs, 2, Min(3, Len(rs)))

(* reasons[:3] *)
Top3(rs) == SubSeq(rs, 1, Min(3, Len(rs)))

DemoReasons(t) == DemoLoop(t, 1, 0, <<>>)[2]

(* the action left out of the returned dict *)
DemoResult_noaction(total, rs) ==
    LET s == DemoCap(total) IN
    [risk_score |-> s,
     risk_level |-> DemoLevel(s),
     explanations |-> Top3(rs)]

(* calculate_final_score after the rule loop: cap, risk level, returned dict *)
DemoResult(total, rs) ==
    LET s == DemoCap(total) IN
    [risk_score |-> s,
     risk_level |-> DemoLevel(s),
     suggested_action |-> DemoAction(s),
     explanations |-> Top3(rs)]

Demo_calculate_final_score(t) == DemoResult(DemoTotal(t), DemoReasons(t))

----------------------------------------------------------------------------
(* Dispatch of scorer.calculate_final_score on the class of the scorer *)

ScorerClasses == {"SimpleScorer", "AppFallbackScorer", "DemoFallbackScorer"}

calculate_final_score(sc, t) ==
    CASE sc = "SimpleScorer" -> SimpleScorer_calculate_final_score(t)
      [] sc = "AppFallbackScorer" -> App_calculate_final_score(t)
      [] sc = "DemoFallbackScorer" -> Demo_calculate_final_score(t)

(* value of the local score / total_score when the rule loop ends *)
UnclampedTotal(sc, t) ==
    CASE sc = "SimpleScorer" -> PredictTotal(t)
      [] sc = "AppFallbackScorer" -> AppTotal(t)
      [] sc = "DemoFallbackScorer" -> DemoTotal(t)

(* value of the local reasons / triggered_rules when the rule loop ends *)
TriggeredReasons(sc, t) ==
    CASE sc = "SimpleScorer" -> PredictTriggered(t)
      [] sc = "AppFallbackScorer" -> AppReasons(t)
      [] sc = "DemoFallbackScorer" -> DemoReasons(t)

(* the part of calculate_final_score that follows the rule loop *)
ResultOf(sc, total, rs) ==
    CASE sc = "SimpleScorer" -> PredictResult(total, rs)
      [] sc = "AppFallbackScorer" -> AppResult(total, rs)
      [] sc = "DemoFallbackScorer" -> DemoResult(total, rs)

(* self.rules as the constructor sets it; FallbackScorer of app.py has no
   attribute at all *)
RulesOf(sc) ==
    CASE sc = "SimpleScorer" -> RuleBasedFraudDetector_rules
      [] sc = "AppFallbackScorer" -> <<>>
      [] sc = "DemoFallbackScorer" -> Demo_rules
      [] sc = "None" -> <<>>

(* the callers that share the scorer object; none has a call in progress *)
Callers == {"caller1", "caller2"}

Idle == [pc |-> 0]

NoCalls == [c \in Callers |-> Idle]

(* the scorer classes a program can hold after loading *)
HeldScorers(p) ==
    CASE p = "app" -> {"SimpleScorer", "AppFallbackScorer"}
      [] p = "run_demo" -> {"SimpleScorer", "DemoFallbackScorer"}
      [] p = "train_models" -> {"SimpleScorer"}

----------------------------------------------------------------------------
(* State machine *)

Programs == {"app", "run_demo", "train_models"}

Init ==
    /\ program \in Programs
    /\ scorer = "None"
    /\ transaction = EmptyRecord
    /\ total_score = 0
    /\ reasons = <<>>
    /\ result = NoResult
    /\ transactions = <<>>
    /\ batch_results = NotAnalyzed
    /\ top_risky = <<>>
    /\ risk_counts = NoCounts
    /\ rule_engine_score = 0
    /\ external_scores = NoExternal
    /\ unified_score = NotFused
    /\ risk_levels = RISK_LEVELS
    /\ self_rules = <<>>
    /\ calls = NoCalls
    /\ returned = {}
    /\ scenario_index = 0
    /\ sample_size = 0
    /\ entered = 0
    /\ n_txns = 0
    /\ analysed_rows = 0
    /\ page = "Dashboard"
    /\ phase = "waiting"
    /\ data = <<>>
    /\ row_index = 0
    /\ features = <<>>
    /\ labels = <<>>

(* app.py load_scorer: pickle.load succeeds, or any exception gives the
   fallback scorer *)
AppLoadScorer ==
    /\ program = "app"
    /\ scorer = "None"
    /\ \E unpickled \in BOOLEAN :
         scorer' = IF unpickled THEN "SimpleScorer" ELSE "AppFallbackScorer"
    /\ self_rules' = RulesOf(scorer')
    /\ UNCHANGED <<program, score_vars, batch_vars, fusion_vars, config_vars,
                   call_vars, cli_vars, session_vars, feature_vars>>

(* scripts/04_run_demo.py load_scorer *)
DemoLoadScorer ==
    /\ program = "run_demo"
    /\ scorer = "None"
    /\ \E unpickled \in BOOLEAN :
         scorer' = IF unpickled THEN "SimpleScorer" ELSE "DemoFallbackScorer"
    /\ self_rules' = RulesOf(scorer')
    /\ UNCHANGED <<program, score_vars, batch_vars, fusion_vars, config_vars,
                   call_vars, cli_vars, session_vars, feature_vars>>

(* scripts/03_train_models.py main: model = RuleBasedFraudDetector();
   scorer = SimpleScorer(model) *)
TrainModels ==
    /\ program = "train_models"
    /\ scorer = "None"
    /\ scorer' = "SimpleScorer"
    /\ self_rules' = RulesOf(scorer')
    /\ UNCHANGED <<program, score_vars, batch_vars, fusion_vars, config_vars,
                   call_vars, cli_vars, session_vars, feature_vars>>

(* the caller builds the feature record of the next request: a key is set *)
SetField ==
    /\ scorer # "None"
    /\ \E k \in Fields : \E v \in FieldValues(k) :
         transaction' = [f \in (DOMAIN transaction) \cup {k} |->
                            IF f = k THEN v ELSE transaction[f]]
    /\ total_score' = 0
    /\ reasons' = <<>>
    /\ result' = NoResult
    /\ UNCHANGED <<program, scorer, batch_vars, fusion_vars, config_vars, scorer_vars, cli_vars, session_vars, feature_vars>>

(* ... or left out of the record *)
OmitField ==
    /\ scorer # "None"
    /\ \E k \in DOMAIN transaction :
         transaction' = [f \in (DOMAIN transaction) \ {k} |-> transaction[f]]
    /\ total_score' = 0
    /\ reasons' = <<>>
    /\ result' = NoResult
    /\ UNCHANGED <<program, scorer, batch_vars, fusion_vars, config_vars, scorer_vars, cli_vars, session_vars, feature_vars>>

(* result = scorer.calculate_final_score(transaction) *)
CalculateFinalScore ==
    /\ scorer # "None"
    /\ total_score' = UnclampedTotal(scorer, transaction)
    /\ reasons' = TriggeredReasons(scorer, transaction)
    /\ result' = calculate_final_score(scorer, transaction)
    /\ UNCHANGED <<program, scorer, transaction, batch_vars, fusion_vars, config_vars, scorer_vars, cli_vars, session_vars, feature_vars>>

Next ==
    \/ AppLoadScorer
    \/ DemoLoadScorer
    \/ TrainModels
    \/ SetField
    \/ OmitField
    \/ CalculateFinalScore

Spec == Init /\ [][Next]_vars

----------------------------------------------------------------------------
(* The risk classifier on its own: the code after the rule loop (cap, risk
   level, action) applied to every rule total in 0..MaxTotal *)

InitClassify ==
    /\ program \in Programs
    /\ scorer \in HeldScorers(program)
    /\ transaction = EmptyRecord
    /\ total_score \in 0..MaxTotal
    /\ reasons = <<>>
    /\ result = NoResult
    /\ transactions = <<>>
    /\ batch_results = NotAnalyzed
    /\ top_risky = <<>>
    /\ risk_counts = NoCounts
    /\ rule_engine_score = 0
    /\ external_scores = NoExternal
    /\ unified_score = NotFused
    /\ risk_levels = RISK_LEVELS
    /\ self_rules = RulesOf(scorer)
    /\ calls = NoCalls
    /\ returned = {}
    /\ scenario_index = 0
    /\ sample_size = 0
    /\ entered = 0
    /\ n_txns = 0
    /\ analysed_rows = 0
    /\ page = "Dashboard"
    /\ phase = "waiting"
    /\ data = <<>>
    /\ row_index = 0
    /\ features = <<>>
    /\ labels = <<>>

ClassifyScore ==
    /\ "risk_score" \notin DOMAIN result
    /\ result' = ResultOf(scorer, total_score, reasons)
    /\ UNCHANGED <<program, scorer, transaction, total_score, reasons, batch_vars, fusion_vars, config_vars, scorer_vars, cli_vars, session_vars, feature_vars>>

NextScore ==
    /\ "risk_score" \in DOMAIN result
    /\ \E s \in 0..MaxTotal : total_score' = s
    /\ result' = NoResult
    /\ UNCHANGED <<program, scorer, transaction, reasons, batch_vars, fusion_vars, config_vars, scorer_vars, cli_vars, session_vars, feature_vars>>

NextClassify == ClassifyScore \/ NextScore

ClassifySpec == InitClassify /\ [][NextClassify]_vars

----------------------------------------------------------------------------
(* Batch analysis: analyze_batch of the three scorers and the callers'
   summary of its result.

   An element of the input list is [kind, dict]:
     "mapping"      a feature record (dict) with numeric field values;
     "text_amount"  a dict whose amount is text, as a CSV row read without
                    conversion (app.py 573-580, 04_run_demo.py 92-96);
     "not_mapping"  an element that is not a dict. *)

BatchDicts ==
    { [amount |-> 1500, hour |-> 15],
      [transaction_id |-> "TXN_A", amount |-> 50001, txns_last_1h |-> 8,
       is_new_recipient |-> 1],
      [transaction_id |-> "TXN_B", amount |-> 20000, hour |-> 3],
      [amount |-> 50001] }

BatchEntries ==
    { [kind |-> "mapping", dict |-> d] : d \in BatchDicts }
    \cup { [kind |-> "text_amount", dict |-> [transaction_id |-> "TXN_C", hour |-> 15]],
           [kind |-> "not_mapping", dict |-> EmptyRecord] }

(* the exception raised by scoring the element, "" when there is none:
   str has no attribute get; '>' is not supported between str and int *)
ScoringError(txn) ==
    CASE txn.kind = "not_mapping" -> "AttributeError"
      [] txn.kind = "text_amount" -> "TypeError"
      [] OTHER -> ""

(* number of decimal digits of i >= 0 *)
RECURSIVE NumDigits(_)
NumDigits(i) == IF i < 10 THEN 1 ELSE 1 + NumDigits(i \div 10)

RECURSIVE Zeros(_)
Zeros(n) == IF n <= 0 THEN "" ELSE "0" \o Zeros(n - 1)

(* f'{i:06d}' *)
Format06d(i) == Zeros(6 - NumDigits(i)) \o ToString(i)

(* f'{i}' *)
FormatInt(i) == ToString(i)

Raised(err) == [status |-> "raised", error |-> err, results |-> <<>>]

Returned(results) == [status |-> "returned", error |-> "", results |-> results]

(* app.py FallbackScorer.analyze_batch: the loop from enumerate index i on *)
RECURSIVE AppBatchLoop(_, _, _)
AppBatchLoop(txns, i, results) ==
    IF i >= Len(txns) THEN Returned(results)
    ELSE LET txn == txns[i + 1] IN
         IF ScoringError(txn) # "" THEN Raised(ScoringError(txn))
         ELSE LET res == App_calculate_final_score(txn.dict) IN
              AppBatchLoop(txns, i + 1, Append(results,
                  [transaction_id |->
                       Get(txn.dict, "transaction_id", "TXN_" \o Format06d(i)),
                   amount |-> Get(txn.dict, "amount", 0),
                   risk_score |-> res.risk_score,
                   risk_level |-> res.risk_level,
                   suggested_action |-> res.suggested_action,
                   top_reason |-> IF res.explanations # <<>>
                                  THEN res.explanations[1]
                                  ELSE "No specific risk factors"]))

(* the tier of a row carried over from the row before it *)
App_analyze_batch_carried(txns) ==
    LET r == AppBatchLoop(txns, 0, <<>>) IN
    [r EXCEPT !.results =
        [k \in 1..Len(@) |->
            IF k = 1 THEN @[k]
            ELSE [@[k] EXCEPT !.risk_level = r.results[k - 1].risk_level]]]

App_analyze_batch(txns) == AppBatchLoop(txns, 0, <<>>)

(* scripts/04_run_demo.py FallbackScorer.analyze_batch *)
RECURSIVE DemoBatchLoop(_, _, _)
DemoBatchLoop(txns, i, results) ==
    IF i >= Len(txns) THEN Returned(results)
    ELSE LET txn == txns[i + 1] IN
         IF ScoringError(txn) # "" THEN Raised(ScoringError(txn))
         ELSE LET res == Demo_calculate_final_score(txn.dict) IN
              DemoBatchLoop(txns, i + 1, Append(results,
                  [transaction_id |->
                       Get(txn.dict, "transaction_id", "TXN_" \o FormatInt(i)),
                   risk_score |-> res.risk_score,
                   risk_level |-> res.risk_level,
                   suggested_action |-> res.suggested_action,
                   top_reason |-> IF res.explanations # <<>>
                                  THEN res.explanations[1]
                                  ELSE "No specific risk factors"]))

(* the first element of the list skipped *)
Demo_analyze_batch_skipfirst(txns) == DemoBatchLoop(txns, 1, <<>>)

Demo_analyze_batch(txns) == DemoBatchLoop(txns, 0, <<>>)

(* scripts/03_train_models.py SimpleScorer.analyze_batch *)
RECURSIVE SimpleBatchLoop(_, _, _)
SimpleBatchLoop(txns, i, results) ==
    IF i >= Len(txns) THEN Returned(results)
    ELSE LET txn == txns[i + 1] IN
         IF ScoringError(txn) # "" THEN Raised(ScoringError(txn))
         ELSE LET res == predict(txn.dict) IN
              SimpleBatchLoop(txns, i + 1, Append(results,
                  [transaction_id |->
                       Get(txn.dict, "transaction_id", "TXN_" \o FormatInt(i)),
                   risk_score |-> res.risk_score,
                   risk_level |-> res.risk_level,
                   suggested_action |-> res.suggested_action]))

SimpleScorer_analyze_batch(txns) == SimpleBatchLoop(txns, 0, <<>>)

analyze_batch(sc, txns) ==
    CASE sc = "SimpleScorer" -> SimpleScorer_analyze_batch(txns)
      [] sc = "AppFallbackScorer" -> App_analyze_batch(txns)
      [] sc = "DemoFallbackScorer" -> Demo_analyze_batch(txns)

IsHigh(r) == r.risk_level = "HIGH"

(* results[:n] *)
FirstN(results, n) == SubSeq(results, 1, Min(n, Len(results)))

(* app.py analyze_batch_data: high_risk_txns[:5];
   04_run_demo.py main: high_risk_txns[:3] *)
TopRiskyCount(p) == IF p = "app" THEN 5 ELSE 3

TopRisky(p, results) == FirstN(SelectSeq(results, IsHigh), TopRiskyCount(p))

(* sum(1 for r in results if r['risk_level'] == level) *)
CountLevel(results, level) ==
    Len(SelectSeq(results, LAMBDA r : r.risk_level = level))

(* the MEDIUM rows counted with the wrong spelling of the tier *)
RiskCounts_misspelt(results) ==
    [HIGH |-> CountLevel(results, "HIGH"),
     MEDIUM |-> CountLevel(results, "Medium"),
     LOW |-> CountLevel(results, "LOW")]

(* the risk distribution of the summary *)
RiskCounts(results) ==
    [HIGH |-> CountLevel(results, "HIGH"),
     MEDIUM |-> CountLevel(results, "MEDIUM"),
     LOW |-> CountLevel(results, "LOW")]

(* the list to analyse is loaded: one more element *)
AddTransaction ==
    /\ scorer # "None"
    /\ batch_results.status = "not_analyzed"
    /\ Len(transactions) < MaxBatch
    /\ \E e \in BatchEntries : transactions' = Append(transactions, e)
    /\ UNCHANGED <<program, scorer, score_vars, batch_results, top_risky, risk_counts, fusion_vars, config_vars, scorer_vars, cli_vars, session_vars, feature_vars>>

(* app.py analyze_batch_data / 04_run_demo.py main: analyze_batch, then the
   top risky rows of the returned list; an exception ends the handler *)
AnalyzeBatch ==
    /\ scorer # "None"
    /\ batch_results.status = "not_analyzed"
    /\ batch_results' = analyze_batch(scorer, transactions)
    /\ top_risky' = TopRisky(program, batch_results'.results)
    /\ risk_counts' = IF batch_results'.status = "returned"
                      THEN RiskCounts(batch_results'.results)
                      ELSE risk_counts
    /\ UNCHANGED <<program, scorer, score_vars, transactions, fusion_vars, config_vars, scorer_vars, cli_vars, session_vars, feature_vars>>

(* the page is rerun / the next list is loaded *)
NewBatch ==
    /\ batch_results.status # "not_analyzed"
    /\ transactions' = <<>>
    /\ batch_results' = NotAnalyzed
    /\ top_risky' = <<>>
    /\ risk_counts' = NoCounts
    /\ UNCHANGED <<program, scorer, score_vars, fusion_vars, config_vars, scorer_vars, cli_vars, session_vars, feature_vars>>

NextBatch ==
    \/ AppLoadScorer
    \/ DemoLoadScorer
    \/ AddTransaction
    \/ AnalyzeBatch
    \/ NewBatch

BatchSpec == Init /\ [][NextBatch]_vars

----------------------------------------------------------------------------
(* Score fusion (the scorer class imported by main.py from
   src/scoring_system is not part of the sources; the policy is the one of
   the specification, section 4.3): the weighted average of the present
   sources, each present weight divided by the sum of the present weights.
   The rule engine is always present. *)

ExternalSources == {"xgboost", "isolation_forest"}

FusionScores == {0, 20, 40, 55, 70, 100}

PresentSources(ext) == {"rule_engine"} \cup DOMAIN ext

SourceScore(k, rule, ext) == IF k = "rule_engine" THEN rule ELSE ext[k]

(* sum of f over the three source names, restricted to the present ones *)
WeightSum(present) ==
      (IF "rule_engine" \in present THEN SCORE_WEIGHTS.rule_engine ELSE 0)
    + (IF "xgboost" \in present THEN SCORE_WEIGHTS.xgboost ELSE 0)
    + (IF "isolation_forest" \in present THEN SCORE_WEIGHTS.isolation_forest ELSE 0)

WeightedSum(rule, ext) ==
      SCORE_WEIGHTS.rule_engine * rule
    + (IF "xgboost" \in DOMAIN ext
       THEN SCORE_WEIGHTS.xgboost * ext["xgboost"] ELSE 0)
    + (IF "isolation_forest" \in DOMAIN ext
       THEN SCORE_WEIGHTS.isolation_forest * ext["isolation_forest"] ELSE 0)

(* fuse(rule_score, external_scores): the fraction num / den *)
fuse(rule, ext) ==
    [num |-> WeightedSum(rule, ext), den |-> WeightSum(PresentSources(ext))]

InitFuse ==
    /\ program \in Programs
    /\ scorer = "None"
    /\ transaction = EmptyRecord
    /\ total_score = 0
    /\ reasons = <<>>
    /\ result = NoResult
    /\ transactions = <<>>
    /\ batch_results = NotAnalyzed
    /\ top_risky = <<>>
    /\ risk_counts = NoCounts
    /\ rule_engine_score \in FusionScores
    /\ external_scores = NoExternal
    /\ unified_score = NotFused
    /\ risk_levels = RISK_LEVELS
    /\ self_rules = <<>>
    /\ calls = NoCalls
    /\ returned = {}
    /\ scenario_index = 0
    /\ sample_size = 0
    /\ entered = 0
    /\ n_txns = 0
    /\ analysed_rows = 0
    /\ page = "Dashboard"
    /\ phase = "waiting"
    /\ data = <<>>
    /\ row_index = 0
    /\ features = <<>>
    /\ labels = <<>>

(* an external source delivers its score, or declares itself absent *)
SupplySignal ==
    /\ \E k \in ExternalSources :
         \/ \E v \in FusionScores :
              external_scores' =
                  [f \in (DOMAIN external_scores) \cup {k} |->
                      IF f = k THEN v ELSE external_scores[f]]
         \/ /\ k \in DOMAIN external_scores
            /\ external_scores' =
                  [f \in (DOMAIN external_scores) \ {k} |-> external_scores[f]]
    /\ unified_score' = NotFused
    /\ UNCHANGED <<program, scorer, score_vars, batch_vars, rule_engine_score,
                   config_vars, scorer_vars, cli_vars, session_vars, feature_vars>>

Fuse ==
    /\ unified_score' = fuse(rule_engine_score, external_scores)
    /\ UNCHANGED <<program, scorer, score_vars, batch_vars,
                   rule_engine_score, external_scores, config_vars, scorer_vars, cli_vars, session_vars, feature_vars>>

NextFuse == SupplySignal \/ Fuse

FuseSpec == InitFuse /\ [][NextFuse]_vars

----------------------------------------------------------------------------
(* Configured risk bands: config.py may be edited by the operator; the
   scorers are created and used whatever it holds. *)

BandConfigs ==
    { RISK_LEVELS,
      [LOW |-> <<0, 30>>, MEDIUM |-> <<30, 60>>, HIGH |-> <<60, 100>>],
      [LOW |-> <<0, 40>>, MEDIUM |-> <<50, 70>>, HIGH |-> <<70, 100>>],
      [LOW |-> <<0, 50>>, MEDIUM |-> <<40, 70>>, HIGH |-> <<70, 100>>],
      [LOW |-> <<0, 40>>, MEDIUM |-> <<40, 70>>, HIGH |-> <<70, 90>>] }

(* the records of the demo buttons of app.py render_dashboard and of the
   scenarios of 04_run_demo.py main *)
DemoScenarios ==
    { [amount |-> 50000, hour |-> 3, txns_last_1h |-> 8, is_new_recipient |-> 1],
      [amount |-> 20000, hour |-> 2, txns_last_1h |-> 9, is_new_recipient |-> 1],
      [amount |-> 1500, hour |-> 15, txns_last_1h |-> 1, is_new_recipient |-> 0],
      [amount |-> 45000, hour |-> 11, txns_last_1h |-> 1, is_new_recipient |-> 0] }

(* the test cases of 03_train_models.py main *)
TrainTestCases ==
    { [amount |-> 50000, hour |-> 3, amount_log |-> 12],
      [amount |-> 1500, hour |-> 15, amount_log |-> 9],
      [amount |-> 20000, hour |-> 22, amount_log |-> 11] }

InitConfig ==
    /\ program \in Programs
    /\ scorer = "None"
    /\ transaction = EmptyRecord
    /\ total_score = 0
    /\ reasons = <<>>
    /\ result = NoResult
    /\ transactions = <<>>
    /\ batch_results = NotAnalyzed
    /\ top_risky = <<>>
    /\ risk_counts = NoCounts
    /\ rule_engine_score = 0
    /\ external_scores = NoExternal
    /\ unified_score = NotFused
    /\ risk_levels \in BandConfigs
    /\ self_rules = <<>>
    /\ calls = NoCalls
    /\ returned = {}
    /\ scenario_index = 0
    /\ sample_size = 0
    /\ entered = 0
    /\ n_txns = 0
    /\ analysed_rows = 0
    /\ page = "Dashboard"
    /\ phase = "waiting"
    /\ data = <<>>
    /\ row_index = 0
    /\ features = <<>>
    /\ labels = <<>>

(* a demo scenario or test case is scored *)
TestScenario ==
    /\ scorer # "None"
    /\ \E t \in DemoScenarios \cup TrainTestCases :
         /\ transaction' = t
         /\ total_score' = UnclampedTotal(scorer, t)
         /\ reasons' = TriggeredReasons(scorer, t)
         /\ result' = calculate_final_score(scorer, t)
    /\ UNCHANGED <<program, scorer, batch_vars, fusion_vars, config_vars, scorer_vars, cli_vars, session_vars, feature_vars>>

NextConfig ==
    \/ AppLoadScorer
    \/ DemoLoadScorer
    \/ TrainModels
    \/ TestScenario

ConfigSpec == InitConfig /\ [][NextConfig]_vars

----------------------------------------------------------------------------
(* Vocabulary of the properties *)

Scored == "risk_score" \in DOMAIN result

TypeOK ==
    /\ program \in Programs
    /\ scorer \in ScorerClasses \cup {"None"}
    /\ DOMAIN transaction \subseteq Fields

BLOCK == "BLOCK - Requires additional verification"
WARN == "WARN - Review recommended"
ALLOW == "ALLOW - Appears legitimate"

(* the explanation list of a result: explanations, or rules_triggered *)
ExplanationList(r) ==
    IF "explanations" \in DOMAIN r THEN r.explanations ELSE r.rules_triggered

(* the band of config.RISK_LEVELS: lower bound inclusive, upper bound
   exclusive, except that the band ending at 100 includes 100 *)
InBand(k, s) ==
    /\ RISK_LEVELS[k][1] <= s
    /\ \/ s < RISK_LEVELS[k][2]
       \/ s = 100 /\ RISK_LEVELS[k][2] = 100

(* points of the baseline evaluators of the specification whose condition
   holds for record t, absent fields read with their defaults *)
BaselineSum(t) ==
      (IF Get(t, "amount", 0) > 50000 THEN 40 ELSE 0)
    + (IF Get(t, "amount", 0) > 10000 THEN 30 ELSE 0)
    + (IF Get(t, "hour", 12) < 6 THEN 25 ELSE 0)
    + (IF Get(t, "hour", 12) > 22 THEN 20 ELSE 0)
    + (IF Get(t, "txns_last_1h", 0) > 5 THEN 30 ELSE 0)
    + (IF Get(t, "is_new_recipient", 0) = 1 THEN 25 ELSE 0)

(* the demo scenarios of app.py render_dashboard and 04_run_demo.py main *)
MicropayScam ==
    [amount |-> 50000, hour |-> 3, txns_last_1h |-> 8, is_new_recipient |-> 1]

VelocityAttack ==
    [amount |-> 20000, hour |-> 2, txns_last_1h |-> 9, is_new_recipient |-> 1]

NormalTransaction ==
    [amount |-> 1500, hour |-> 15, txns_last_1h |-> 1, is_new_recipient |-> 0]

(* record t with the defaults written in for the absent scoring fields *)
WithDefaults(t) ==
    [f \in (DOMAIN t) \cup {"amount", "hour", "txns_last_1h", "is_new_recipient"} |->
        IF f \in DOMAIN t THEN t[f]
        ELSE CASE f = "amount" -> 0
               [] f = "hour" -> 12
               [] f = "txns_last_1h" -> 0
               [] f = "is_new_recipient" -> 0]

----------------------------------------------------------------------------
(* C1: whatever the feature record and however many rules fire, the
   risk_score of every rule-set implementation lies in [0,100]; it is the
   unclamped rule total cut off at 100 by the single final min. *)
C1_ScoreInRange ==
    Scored =>
        /\ result.risk_score \in 0..100
        /\ total_score >= 0
        /\ result.risk_score = IF total_score > 100 THEN 100 ELSE total_score

C1_Witness ==
    /\ Scored
    /\ scorer = "SimpleScorer"
    /\ total_score = 130
    /\ result.risk_score = 100

(* C2: for every score in [0,100] the classifier returns exactly one tier:
   LOW iff s < 40, MEDIUM iff 40 <= s < 70, HIGH iff 70 <= s <= 100; exactly
   one band of config.RISK_LEVELS contains the score and it is the band of
   the returned tier. *)
C2_TierBands ==
    Scored =>
        LET s == result.risk_score
            level == result.risk_level
        IN  /\ s \in 0..100
            /\ level \in {"LOW", "MEDIUM", "HIGH"}
            /\ level = "LOW" <=> (0 <= s /\ s < 40)
            /\ level = "MEDIUM" <=> (40 <= s /\ s < 70)
            /\ level = "HIGH" <=> (70 <= s /\ s <= 100)
            /\ Cardinality({k \in DOMAIN RISK_LEVELS : InBand(k, s)}) = 1
            /\ InBand(level, s)

C2_Witness ==
    /\ Scored
    /\ scorer = "AppFallbackScorer"
    /\ result.risk_score = 40
    /\ result.risk_level = "MEDIUM"

(* C3: in every result the suggested action is the one of the risk level:
   HIGH iff BLOCK, MEDIUM iff WARN, LOW iff ALLOW. *)
C3_ActionOfLevel ==
    Scored =>
        /\ result.risk_level = "HIGH" <=> result.suggested_action = BLOCK
        /\ result.risk_level = "MEDIUM" <=> result.suggested_action = WARN
        /\ result.risk_level = "LOW" <=> result.suggested_action = ALLOW

C3_Witness ==
    /\ Scored
    /\ scorer = "DemoFallbackScorer"
    /\ result.risk_level = "MEDIUM"
    /\ result.suggested_action = WARN

(* C4: the score of every rule-set implementation is min(100, sum of the
   points of the six baseline evaluators whose condition holds). *)
C4_BaselineScore ==
    Scored => result.risk_score = Min(100, BaselineSum(transaction))

(* C5: a record with amount > 50000 and no other rule firing scores
   40 + 30 = 70 and is HIGH in every rule-set implementation. *)
C5_AmountRulesAdditive ==
    ( /\ Scored
      /\ Get(transaction, "amount", 0) > 50000
      /\ BaselineSum(transaction) = 70
      /\ Get(transaction, "amount_log", 0) <= 12 )
    => /\ result.risk_score = 70
       /\ result.risk_level = "HIGH"

(* C6: the micropay-scam record scores 100, HIGH, BLOCK whichever scorer
   the application holds. *)
C6_MicropayScam ==
    (Scored /\ transaction = MicropayScam) =>
        /\ result.risk_score = 100
        /\ result.risk_level = "HIGH"
        /\ result.suggested_action = BLOCK

(* C7 as stated: for the micropay-scam record the fallback scorers trigger
   amount > 50000 (40), hour < 6, velocity and new recipient, an unclamped
   total of 120. *)
C7_MicropayRaw120 ==
    ( /\ Scored
      /\ transaction = MicropayScam
      /\ scorer \in {"AppFallbackScorer", "DemoFallbackScorer"} )
    => /\ total_score = 120
       /\ reasons[1] = "Amount > ₹50,000"

(* C7 amended: for the micropay-scam record the fallback scorers trigger
   exactly amount > 10000 (30), hour < 6 (25), velocity (30) and new
   recipient (25): amount = 50000 is not above 50000. The unclamped total is
   110, clamped to 100. *)
C7_MicropayRaw110 ==
    ( /\ Scored
      /\ transaction = MicropayScam
      /\ scorer \in {"AppFallbackScorer", "DemoFallbackScorer"} )
    => /\ total_score = 110
       /\ result.risk_score = 100
       /\ scorer = "AppFallbackScorer" =>
            reasons = << "Amount > ₹10,000",
                         "Late night transaction (12AM-6AM)",
                         "High velocity (8 transactions/hour)",
                         "First time sending to this recipient" >>
       /\ scorer = "DemoFallbackScorer" =>
            reasons = << "Amount > ₹10,000",
                         "Late night (12AM-6AM)",
                         "New recipient",
                         "High velocity" >>

C7_Witness ==
    /\ Scored
    /\ transaction = MicropayScam
    /\ scorer = "AppFallbackScorer"
    /\ total_score = 110

(* C8: the velocity-attack record has an unclamped total of 110, a
   risk_score of 100 and level HIGH under every scorer. *)
C8_VelocityAttack ==
    (Scored /\ transaction = VelocityAttack) =>
        /\ total_score = 110
        /\ result.risk_score = 100
        /\ result.risk_level = "HIGH"

(* C9: the normal-transaction record fires no evaluator: score 0, LOW,
   ALLOW and an empty explanation list under every scorer. *)
C9_NormalTransaction ==
    (Scored /\ transaction = NormalTransaction) =>
        /\ reasons = <<>>
        /\ total_score = 0
        /\ result.risk_score = 0
        /\ result.risk_level = "LOW"
        /\ result.suggested_action = ALLOW
        /\ ExplanationList(result) = <<>>

C9_Witness ==
    /\ Scored
    /\ transaction = NormalTransaction
    /\ scorer = "SimpleScorer"
    /\ result.risk_score = 0

(* C10: a record lacking any of amount, hour, txns_last_1h,
   is_new_recipient is scored, and its result is the result of the record
   with amount = 0, hour = 12, txns_last_1h = 0, is_new_recipient = 0 written
   in for the absent fields; the empty record scores 0 and is LOW. *)
C10_MissingFieldDefaults ==
    Scored =>
        /\ result = calculate_final_score(scorer, WithDefaults(transaction))
        /\ transaction = EmptyRecord =>
             (result.risk_score = 0 /\ result.risk_level = "LOW")

C10_Witness ==
    /\ Scored
    /\ DOMAIN transaction = {"amount", "is_new_recipient"}
    /\ transaction.amount = 20000
    /\ transaction.is_new_recipient = 1
    /\ scorer = "AppFallbackScorer"
    /\ result.risk_score = 55

----------------------------------------------------------------------------
(* Vocabulary of the batch properties *)

Analyzed == batch_results.status # "not_analyzed"

WellFormed(txns) == \A i \in 1..Len(txns) : txns[i].kind = "mapping"

(* C11: for a list of well-formed records analyze_batch returns a list of
   the same length whose i-th element carries the score and tier of scoring
   the i-th record alone and the record's transaction_id when it has one. *)
C11_BatchOrder ==
    (Analyzed /\ WellFormed(transactions)) =>
        /\ batch_results.status = "returned"
        /\ Len(batch_results.results) = Len(transactions)
        /\ \A i \in 1..Len(transactions) :
             LET d == transactions[i].dict
                 single == calculate_final_score(scorer, d)
                 row == batch_results.results[i]
             IN  /\ row.risk_score = single.risk_score
                 /\ row.risk_level = single.risk_level
                 /\ "transaction_id" \in DOMAIN d =>
                        row.transaction_id = d.transaction_id

C11_Witness ==
    /\ Analyzed
    /\ scorer = "DemoFallbackScorer"
    /\ WellFormed(transactions)
    /\ Len(batch_results.results) = 3
    /\ batch_results.results[1].risk_score = 0
    /\ batch_results.results[2].transaction_id = "TXN_B"
    /\ batch_results.results[2].risk_score = 55
    /\ batch_results.results[3].risk_score = 100

(* C12: a malformed element never aborts the batch: analyze_batch returns
   the results of the well-formed elements, one per well-formed element. *)
C12_MalformedSkipped ==
    Analyzed =>
        /\ batch_results.status = "returned"
        /\ Len(batch_results.results) =
             Cardinality({i \in 1..Len(transactions) :
                            transactions[i].kind = "mapping"})

(* C13: in every analyze_batch a record with a transaction_id keeps it and
   a record without one gets TXN_ followed by its 0-based index zero-padded
   to 6 digits (indices below 10: five zeros and the digit). *)
C13_SyntheticIds ==
    (Analyzed /\ batch_results.status = "returned") =>
        \A i \in 1..Len(batch_results.results) :
            LET d == transactions[i].dict
                row == batch_results.results[i]
            IN  IF "transaction_id" \in DOMAIN d
                THEN row.transaction_id = d.transaction_id
                ELSE row.transaction_id = "TXN_00000" \o ToString(i - 1)

(* C14 as stated: every result of calculate_final_score has the five keys
   risk_score, risk_level, suggested_action, explanations and breakdown. *)
C14_FiveKeys ==
    Scored =>
        {"risk_score", "risk_level", "suggested_action", "explanations",
         "breakdown"} \subseteq DOMAIN result

(* C14 amended: every result has risk_score, risk_level and
   suggested_action and one explanation list, under the key explanations in
   both fallback scorers and rules_triggered in the pickled SimpleScorer;
   breakdown is present only in results of the app.py fallback scorer. *)
C14_ResultKeys ==
    Scored =>
        /\ {"risk_score", "risk_level", "suggested_action"} \subseteq DOMAIN result
        /\ "explanations" \in DOMAIN result
             <=> scorer \in {"AppFallbackScorer", "DemoFallbackScorer"}
        /\ "rules_triggered" \in DOMAIN result <=> scorer = "SimpleScorer"
        /\ "breakdown" \in DOMAIN result <=> scorer = "AppFallbackScorer"

C14_Witness ==
    /\ Scored
    /\ scorer = "SimpleScorer"
    /\ DOMAIN result =
         {"risk_score", "risk_level", "suggested_action", "rules_triggered"}

(* C15: with no external signal source the unified score is the rule-set
   score: risk_score is the capped rule total, a breakdown repeats it as
   rule_engine_score, and the placeholder ml_probability / anomaly_score do
   not enter risk_score or risk_level. *)
C15_UnifiedIsRuleScore ==
    Scored =>
        /\ result.risk_score = Min(total_score, 100)
        /\ result.risk_level =
             (IF Min(total_score, 100) >= 70 THEN "HIGH"
              ELSE IF Min(total_score, 100) >= 40 THEN "MEDIUM" ELSE "LOW")
        /\ "breakdown" \in DOMAIN result =>
             /\ result.breakdown.rule_engine_score = result.risk_score
             /\ result.breakdown.ml_probability = "0.5"
             /\ result.breakdown.anomaly_score = 0

C15_Witness ==
    /\ Scored
    /\ scorer = "AppFallbackScorer"
    /\ total_score = 55
    /\ result.risk_score = 55
    /\ result.breakdown.rule_engine_score = 55

----------------------------------------------------------------------------
(* Vocabulary of the fusion properties *)

Fused == unified_score.num >= 0

PresentScores ==
    {SourceScore(k, rule_engine_score, external_scores) :
        k \in PresentSources(external_scores)}

(* C16: the fusion weights sum to 1 (10 tenths); for every set of present
   sources that includes the rule engine the unified score num / den is the
   weighted average with the weights renormalised over the present sources,
   so it lies in [0,100] and between the smallest and the largest present
   score. *)
C16_Fusion ==
    /\ SCORE_WEIGHTS.rule_engine + SCORE_WEIGHTS.xgboost
         + SCORE_WEIGHTS.isolation_forest = 10
    /\ Fused =>
         /\ unified_score.den > 0
         /\ unified_score.den = WeightSum(PresentSources(external_scores))
         /\ unified_score.num = WeightedSum(rule_engine_score, external_scores)
         /\ 0 <= unified_score.num
         /\ unified_score.num <= 100 * unified_score.den
         /\ \A v \in PresentScores :
              (\A w \in PresentScores : v <= w)
                 => v * unified_score.den <= unified_score.num
         /\ \A v \in PresentScores :
              (\A w \in PresentScores : w <= v)
                 => unified_score.num <= v * unified_score.den
         /\ external_scores = NoExternal =>
              unified_score.num = rule_engine_score * unified_score.den

C16_Witness ==
    /\ Fused
    /\ rule_engine_score = 100
    /\ DOMAIN external_scores = {"xgboost"}
    /\ external_scores["xgboost"] = 20
    /\ unified_score = [num |-> 380, den |-> 7]

----------------------------------------------------------------------------
(* Vocabulary of the configuration properties *)

(* the bands are contiguous, do not overlap and cover [0,100] *)
ValidBands(b) ==
    /\ b.LOW[1] = 0
    /\ b.LOW[2] = b.MEDIUM[1]
    /\ b.MEDIUM[2] = b.HIGH[1]
    /\ b.HIGH[2] = 100
    /\ b.LOW[1] < b.LOW[2]
    /\ b.MEDIUM[1] < b.MEDIUM[2]
    /\ b.HIGH[1] < b.HIGH[2]

InBandOf(b, k, s) ==
    /\ b[k][1] <= s
    /\ \/ s < b[k][2]
       \/ s = 100 /\ b[k][2] = 100

(* C17: a scorer exists only under valid bands (creation fails with a
   ConfigurationError otherwise, so no request is served), and the tier of a
   result is the one the configured bands give to its score. *)
C17_BandsValidated ==
    /\ scorer # "None" => ValidBands(risk_levels)
    /\ Scored => InBandOf(risk_levels, result.risk_level, result.risk_score)

----------------------------------------------------------------------------
(* One scorer object shared by several callers.  A call is a frame of
   locals (the record passed in, score, reasons) that walks the rules one at
   a time; the frames of different callers interleave freely. *)

SharedRecords == {MicropayScam, VelocityAttack, NormalTransaction}

(* number of rule evaluations of one call: the four if-blocks of app.py,
   otherwise one per element of self.rules *)
NumSteps(sc, rules) == IF sc = "AppFallbackScorer" THEN 4 ELSE Len(rules)

(* the i-th rule evaluation of a call on record t, from the locals
   st = <<score, reasons>> *)
EvalStep(sc, rules, i, t, st) ==
    CASE sc = "SimpleScorer" ->
           IF RuleCondition(rules[i].condition, t)
           THEN <<st[1] + rules[i].score, Append(st[2], rules[i].description)>>
           ELSE st
      [] sc = "DemoFallbackScorer" ->
           IF DemoCondition(rules[i][2], t)
           THEN <<st[1] + rules[i][3], Append(st[2], rules[i][1])>>
           ELSE st
      [] sc = "AppFallbackScorer" ->
           CASE i = 1 -> AppRuleAmount(t, st)
             [] i = 2 -> AppRuleTime(t, st)
             [] i = 3 -> AppRuleVelocity(t, st)
             [] i = 4 -> AppRuleNewRecipient(t, st)

(* a rule is dropped from self.rules once it has been evaluated *)
RulesAfterRule_consumed(rules) == IF rules = <<>> THEN rules ELSE Tail(rules)

(* self.rules after one rule evaluation: the loop body assigns locals only *)
RulesAfterRule(rules) == rules

InitShared ==
    /\ program \in Programs
    /\ scorer = "None"
    /\ transaction = EmptyRecord
    /\ total_score = 0
    /\ reasons = <<>>
    /\ result = NoResult
    /\ transactions = <<>>
    /\ batch_results = NotAnalyzed
    /\ top_risky = <<>>
    /\ risk_counts = NoCounts
    /\ rule_engine_score = 0
    /\ external_scores = NoExternal
    /\ unified_score = NotFused
    /\ risk_levels = RISK_LEVELS
    /\ self_rules = <<>>
    /\ calls = NoCalls
    /\ returned = {}
    /\ scenario_index = 0
    /\ sample_size = 0
    /\ entered = 0
    /\ n_txns = 0
    /\ analysed_rows = 0
    /\ page = "Dashboard"
    /\ phase = "waiting"
    /\ data = <<>>
    /\ row_index = 0
    /\ features = <<>>
    /\ labels = <<>>

(* a caller enters calculate_final_score / predict with a record *)
BeginCall ==
    /\ scorer # "None"
    /\ \E c \in Callers : \E t \in SharedRecords :
         /\ calls[c].pc = 0
         /\ calls' = [calls EXCEPT ![c] =
                         [pc |-> 1, arg |-> t, record |-> t,
                          score |-> 0, rs |-> <<>>]]
    /\ UNCHANGED <<program, scorer, score_vars, batch_vars, fusion_vars,
                   config_vars, self_rules, returned, cli_vars, session_vars, feature_vars>>

(* one iteration of the rule loop in some caller's frame *)
EvalRule ==
    \E c \in Callers :
        /\ calls[c].pc >= 1
        /\ calls[c].pc <= NumSteps(scorer, self_rules)
        /\ LET f == calls[c]
               st == EvalStep(scorer, self_rules, f.pc, f.record,
                              <<f.score, f.rs>>)
           IN  calls' = [calls EXCEPT ![c] =
                            [pc |-> f.pc + 1, arg |-> f.arg,
                             record |-> f.record,
                             score |-> st[1], rs |-> st[2]]]
        /\ self_rules' = RulesAfterRule(self_rules)
        /\ UNCHANGED <<program, scorer, score_vars, batch_vars, fusion_vars,
                       config_vars, returned, cli_vars, session_vars, feature_vars>>

(* the loop is over: cap, risk level, the dict is returned to the caller *)
ReturnCall ==
    \E c \in Callers :
        /\ calls[c].pc >= 1
        /\ calls[c].pc > NumSteps(scorer, self_rules)
        /\ transaction' = calls[c].record
        /\ total_score' = calls[c].score
        /\ reasons' = calls[c].rs
        /\ result' = ResultOf(scorer, calls[c].score, calls[c].rs)
        /\ returned' = returned \cup
                         {[caller |-> c, record |-> calls[c].arg,
                           result |-> result']}
        /\ calls' = [calls EXCEPT ![c] = Idle]
        /\ UNCHANGED <<program, scorer, batch_vars, fusion_vars, config_vars,
                       self_rules, cli_vars, session_vars, feature_vars>>

NextShared ==
    \/ AppLoadScorer
    \/ DemoLoadScorer
    \/ TrainModels
    \/ BeginCall
    \/ EvalRule
    \/ ReturnCall

SharedSpec == InitShared /\ [][NextShared]_vars

(* C18: scoring is pure.  Whatever calls interleave on the shared scorer,
   all completed calls on equal records returned equal results, the scorer
   still holds the rules its constructor set, and the record of a call in
   progress is still the record that was passed in. *)
C18_Pure ==
    /\ \A a \in returned : \A b \in returned :
         a.record = b.record => a.result = b.result
    /\ scorer # "None" => self_rules = RulesOf(scorer)
    /\ \A c \in Callers : calls[c].pc > 0 => calls[c].record = calls[c].arg

(* the same record was scored by both callers, another record was scored
   too, and a call is half-way through the rules *)
C18_Witness ==
    /\ \E a \in returned : \E b \in returned : \E x \in returned :
         /\ a.caller # b.caller
         /\ a.record = b.record
         /\ a.result = b.result
         /\ x.record # a.record
    /\ \E c \in Callers : calls[c].pc > 1

----------------------------------------------------------------------------
(* Vocabulary of the explanation properties *)

(* the evaluators in declaration order, named as the conditions of the
   rule list of 04_run_demo.py *)
Evaluators ==
    <<"amount_gt_50000", "amount_gt_10000", "hour_lt_6", "hour_gt_22",
      "txns_last_1h_gt_5", "is_new_recipient">>

Triggers(t, ev) == DemoCondition(ev, t)

RECURSIVE TriggeredFrom(_, _)
TriggeredFrom(t, i) ==
    IF i > Len(Evaluators) THEN <<>>
    ELSE IF Triggers(t, Evaluators[i])
         THEN <<Evaluators[i]>> \o TriggeredFrom(t, i + 1)
         ELSE TriggeredFrom(t, i + 1)

(* the evaluators that trigger on record t, in declaration order *)
TriggeredEvaluators(t) == TriggeredFrom(t, 1)

(* the evaluator an explanation text describes *)
EvaluatorOf(desc) ==
    CASE desc = "Amount > ₹50,000" -> "amount_gt_50000"
      [] desc = "Amount > ₹10,000" -> "amount_gt_10000"
      [] desc \in {"Transaction during late night (12AM-6AM)",
                   "Late night transaction (12AM-6AM)",
                   "Late night (12AM-6AM)"} -> "hour_lt_6"
      [] desc \in {"Transaction during suspicious hours (10PM-12AM)",
                   "Suspicious hours (10PM-12AM)"} -> "hour_gt_22"
      [] desc \in {"High velocity"} \cup
                  {"High velocity (" \o ToString(n) \o " transactions/hour)" :
                       n \in TxnsValues} -> "txns_last_1h_gt_5"
      [] desc \in {"New recipient",
                   "First time sending to this recipient"} -> "is_new_recipient"
      [] desc = "Exceptionally high amount" -> "amount_log_gt_12"

ExplainedEvaluators(r) ==
    [i \in 1..Len(ExplanationList(r)) |-> EvaluatorOf(ExplanationList(r)[i])]

(* C19: the explanations of a result describe exactly the evaluators that
   trigger on the record, each once, in declaration order (amount > 50,000,
   amount > 10,000, hour < 6, hour > 22, velocity, new recipient). *)
C19_ExplanationsComplete ==
    Scored => ExplainedEvaluators(result) = TriggeredEvaluators(transaction)

----------------------------------------------------------------------------
(* Vocabulary of the ranking properties *)

(* number of rows of rs that come before row k when the rows are ordered by
   descending risk_score, equal scores in input order *)
Rank(rs, k) ==
    Cardinality({m \in 1..Len(rs) :
                    \/ rs[m].risk_score > rs[k].risk_score
                    \/ rs[m].risk_score = rs[k].risk_score /\ m < k})

(* the n highest-scored rows of rs, descending, ties in input order *)
HighestScored(rs, n) ==
    [i \in 1..Min(n, Len(rs)) |->
        rs[CHOOSE k \in 1..Len(rs) : Rank(rs, k) = i - 1]]

(* C20: the top risky transactions reported for a batch are the N rows with
   the highest risk_score, in descending score order, ties in input order
   (N = 5 in the web app, 3 in the demo script). *)
C20_TopRiskyRanked ==
    Analyzed =>
        top_risky = HighestScored(batch_results.results, TopRiskyCount(program))

----------------------------------------------------------------------------
(* C21: for every batch that was analysed, the per-tier counts of the
   summary add up to the number of result rows, and every row carries one
   of the three tier names. *)
C21_CountsSum ==
    batch_results.status = "returned" =>
        /\ risk_counts.HIGH + risk_counts.MEDIUM + risk_counts.LOW
             = Len(batch_results.results)
        /\ \A i \in 1..Len(batch_results.results) :
             batch_results.results[i].risk_level \in {"HIGH", "MEDIUM", "LOW"}

(* a batch of three rows, one of each tier *)
C21_Witness ==
    /\ batch_results.status = "returned"
    /\ risk_counts = [HIGH |-> 1, MEDIUM |-> 1, LOW |-> 1]

----------------------------------------------------------------------------
(* Vocabulary of the order-independence property *)

(* the part of a result or of a batch row that scoring decides *)
Core(r) ==
    [risk_score |-> r.risk_score,
     risk_level |-> r.risk_level,
     suggested_action |-> r.suggested_action]

Orders(n) ==
    {p \in [1..n -> 1..n] : \A i \in 1..n : \A j \in 1..n : p[i] = p[j] => i = j}

(* the list txns taken in the order p *)
Permuted(txns, p) == [k \in 1..Len(txns) |-> txns[p[k]]]

(* C22: batch evaluation has no cross-record dependency.  In a batch of
   well-formed records the score, tier and action of every row are those of
   scoring its record alone, and analysing the records in any other order
   gives, record for record, the same score, tier and action. *)
C22_NoCrossDependency ==
    (batch_results.status = "returned" /\ WellFormed(transactions)) =>
        LET n == Len(transactions)
            rs == batch_results.results
        IN  /\ \A i \in 1..n :
                 Core(rs[i]) =
                     Core(calculate_final_score(scorer, transactions[i].dict))
            /\ \A p \in Orders(n) :
                 LET out == analyze_batch(scorer, Permuted(transactions, p))
                 IN  /\ out.status = "returned"
                     /\ \A k \in 1..n : Core(out.results[k]) = Core(rs[p[k]])

(* three records of three different tiers, highest in the middle *)
C22_Witness ==
    /\ batch_results.status = "returned"
    /\ WellFormed(transactions)
    /\ Len(batch_results.results) = 3
    /\ batch_results.results[1].risk_level = "LOW"
    /\ batch_results.results[2].risk_level = "HIGH"
    /\ batch_results.results[3].risk_level = "MEDIUM"

----------------------------------------------------------------------------
(* Vocabulary of the description properties *)

Range(seq) == {seq[i] : i \in 1..Len(seq)}

(* "High velocity (N transactions/hour)" *)
VelocityDescription(n) ==
    "High velocity (" \o ToString(n) \o " transactions/hour)"

NewRecipientDescription == "First time sending to this recipient"

(* C23: in every scorer that evaluates the velocity and new-recipient rules,
   a triggered velocity rule reports "High velocity (N transactions/hour)"
   with N the record's txns_last_1h, and a triggered new-recipient rule
   reports "First time sending to this recipient". *)
C23_Descriptions ==
    (Scored /\ scorer \in {"AppFallbackScorer", "DemoFallbackScorer"}) =>
        /\ Get(transaction, "txns_last_1h", 0) > 5 =>
             VelocityDescription(transaction.txns_last_1h) \in Range(reasons)
        /\ Get(transaction, "is_new_recipient", 0) = 1 =>
             NewRecipientDescription \in Range(reasons)

----------------------------------------------------------------------------
(* Vocabulary of the zero-score property *)

(* no condition of the scorer's rules is true for record t *)
NoRuleTrue(sc, t) ==
    CASE sc = "SimpleScorer" ->
           /\ ~(Get(t, "amount", 0) > 50000)
           /\ ~(Get(t, "amount", 0) > 10000)
           /\ ~(Get(t, "hour", 12) < 6)
           /\ ~(Get(t, "hour", 12) > 22)
           /\ ~(Get(t, "amount_log", 0) > 12)
      [] sc = "AppFallbackScorer" ->
           /\ ~(Get(t, "amount", 0) > 50000)
           /\ ~(Get(t, "amount", 0) > 10000)
           /\ ~(Get(t, "hour", 12) < 6)
           /\ ~(Get(t, "txns_last_1h", 0) > 5)
           /\ ~(Get(t, "is_new_recipient", 0) = 1)
      [] sc = "DemoFallbackScorer" ->
           /\ ~(Get(t, "amount", 0) > 50000)
           /\ ~(Get(t, "amount", 0) > 10000)
           /\ ~(Get(t, "hour", 12) < 6)
           /\ ~(Get(t, "hour", 12) > 22)
           /\ ~(Get(t, "is_new_recipient", 0) = 1)
           /\ ~(Get(t, "txns_last_1h", 0) > 5)

(* C24: scoring returns a result for every record, and in a result
   risk_score = 0 exactly when the explanation list is empty, exactly when
   no rule condition is true for the record; such a record is LOW. *)
C24_ZeroIffNothingTriggered ==
    /\ scorer # "None" =>
         "risk_score" \in DOMAIN calculate_final_score(scorer, transaction)
    /\ Scored =>
         /\ (result.risk_score = 0) <=> (ExplanationList(result) = <<>>)
         /\ (ExplanationList(result) = <<>>) <=> NoRuleTrue(scorer, transaction)
         /\ result.risk_score = 0 => result.risk_level = "LOW"

(* every field sits on the harmless side of its threshold *)
C24_Witness ==
    /\ Scored
    /\ scorer = "DemoFallbackScorer"
    /\ transaction = [amount |-> 10000, hour |-> 22, txns_last_1h |-> 5,
                      is_new_recipient |-> 0]
    /\ result.risk_score = 0
    /\ result.explanations = <<>>
    /\ result.risk_level = "LOW"

----------------------------------------------------------------------------
(* main.py: the command-line interface.  Its scorer, UPIFraudScorer of
   src/scoring_system, is the rule set of the specification: the baseline
   evaluators, the cap at 100 and the bands of config.RISK_LEVELS. *)

MaxSample == 6

(* the description of a baseline evaluator *)
BaselineDescription(ev, t) ==
    CASE ev = "amount_gt_50000" -> "Amount > ₹50,000"
      [] ev = "amount_gt_10000" -> "Amount > ₹10,000"
      [] ev = "hour_lt_6" -> "Late night transaction (12AM-6AM)"
      [] ev = "hour_gt_22" -> "Suspicious hours (10PM-12AM)"
      [] ev = "txns_last_1h_gt_5" ->
             "High velocity (" \o ToString(t.txns_last_1h) \o " transactions/hour)"
      [] ev = "is_new_recipient" -> "First time sending to this recipient"

UPIFraudScorer_calculate_final_score(t) ==
    LET s == Min(BaselineSum(t), 100)
        triggered == TriggeredEvaluators(t)
    IN  [risk_score |-> s,
         risk_level |-> IF s >= 70 THEN "HIGH"
                        ELSE IF s >= 40 THEN "MEDIUM" ELSE "LOW",
         suggested_action |-> IF s >= 70 THEN BLOCK
                              ELSE IF s >= 40 THEN WARN ELSE ALLOW,
         explanations |-> [i \in 1..Len(triggered) |->
                              BaselineDescription(triggered[i], t)]]

(* the scenarios list of run_demo_scenarios *)
main_scenarios ==
    << [amount |-> 50000, txns_last_1h |-> 2, is_new_recipient |-> 1,
        amount_gt_3x_avg |-> 1, micropay_followed_by_large |-> 1, hour |-> 14],
       [amount |-> 20000, txns_last_1h |-> 9, is_new_recipient |-> 1,
        amount_gt_3x_avg |-> 1, hour |-> 3, is_night |-> 1],
       [amount |-> 1500, txns_last_1h |-> 1, is_new_recipient |-> 0,
        amount_gt_3x_avg |-> 0, hour |-> 15, is_night |-> 0] >>

(* a quotient kept exact *)
Fraction(n, d) == [num |-> n, den |-> d]

default_features ==
    [time_since_last_txn |-> 60,
     user_amount_mean |-> 1000,
     amount_z_score |-> 0,
     micropay_followed_by_large |-> 0,
     high_velocity_new_recipient |-> 0]

(* dict.update: d after d.update(other) *)
Update(d, other) ==
    [k \in (DOMAIN d) \cup (DOMAIN other) |->
        IF k \in DOMAIN other THEN other[k] ELSE d[k]]

(* features.update(default_features);
   features['amount_z_score'] = (features['amount'] - 1000) / 300 *)
ScenarioFeatures(feats) ==
    LET updated == Update(feats, default_features) IN
    [updated EXCEPT !["amount_z_score"] = Fraction(updated.amount - 1000, 300)]

Max(a, b) == IF a > b THEN a ELSE b

(* len(df.head(n)) of pandas: the first n rows, or for negative n all rows
   but the last -n *)
HeadLen(len, n) == IF n >= 0 THEN Min(n, len) ELSE Max(len + n, 0)

InitCli ==
    /\ program = "main"
    /\ scorer = "UPIFraudScorer"
    /\ transaction = EmptyRecord
    /\ total_score = 0
    /\ reasons = <<>>
    /\ result = NoResult
    /\ transactions = <<>>
    /\ batch_results = NotAnalyzed
    /\ top_risky = <<>>
    /\ risk_counts = NoCounts
    /\ rule_engine_score = 0
    /\ external_scores = NoExternal
    /\ unified_score = NotFused
    /\ risk_levels = RISK_LEVELS
    /\ self_rules = <<>>
    /\ calls = NoCalls
    /\ returned = {}
    /\ scenario_index = 0
    /\ sample_size = 0
    /\ entered = 0
    /\ n_txns = 0
    /\ analysed_rows = 0
    /\ page = "Dashboard"
    /\ phase = "waiting"
    /\ data = <<>>
    /\ row_index = 0
    /\ features = <<>>
    /\ labels = <<>>

(* one iteration of the loop of run_demo_scenarios *)
RunDemoScenario ==
    /\ scenario_index < Len(main_scenarios)
    /\ scenario_index' = scenario_index + 1
    /\ transaction' = ScenarioFeatures(main_scenarios[scenario_index'])
    /\ total_score' = BaselineSum(transaction')
    /\ result' = UPIFraudScorer_calculate_final_score(transaction')
    /\ reasons' = result'.explanations
    /\ UNCHANGED <<program, scorer, batch_vars, fusion_vars, config_vars,
                   scorer_vars, sample_size, entered, n_txns, analysed_rows,
                   session_vars, feature_vars>>

(* the loop is over, back to the menu *)
EndDemoScenarios ==
    /\ scenario_index = Len(main_scenarios)
    /\ scenario_index' = 0
    /\ UNCHANGED <<program, scorer, score_vars, batch_vars, fusion_vars,
                   config_vars, scorer_vars, sample_size, entered, n_txns,
                   analysed_rows, session_vars, feature_vars>>

(* main.py analyze_batch: the sample has size rows, the user enters an
   integer (an empty input stands for min(50, size)) *)
CliAnalyzeBatch ==
    /\ scenario_index = 0
    /\ \E size \in 1..MaxSample : \E input \in (0 - 2)..(MaxSample + 2) :
         /\ sample_size' = size
         /\ entered' = input
         /\ n_txns' = Min(input, size)
         /\ analysed_rows' = HeadLen(size, n_txns')
    /\ UNCHANGED <<program, scorer, score_vars, batch_vars, fusion_vars,
                   config_vars, scorer_vars, scenario_index, session_vars,
                   feature_vars>>

NextCli ==
    \/ RunDemoScenario
    \/ EndDemoScenarios
    \/ CliAnalyzeBatch

CliSpec == InitCli /\ [][NextCli]_vars

(* C25: in run_demo_scenarios every feature value a scenario supplies
   reaches calculate_final_score unchanged, amount_z_score excepted. *)
C25_ScenarioValuesKept ==
    scenario_index > 0 =>
        \A k \in (DOMAIN main_scenarios[scenario_index]) \ {"amount_z_score"} :
            /\ k \in DOMAIN transaction
            /\ transaction[k] = main_scenarios[scenario_index][k]

(* C28: for every integer the user enters in analyze_batch of main.py, the
   number of transactions analysed lies between 1 and len(sample_features),
   and equals the entered number whenever that number lies in the range. *)
C28_AnalysedInRange ==
    sample_size > 0 =>
        /\ 1 <= analysed_rows
        /\ analysed_rows <= sample_size
        /\ (1 <= entered /\ entered <= sample_size) => analysed_rows = entered

----------------------------------------------------------------------------
(* app.py main: one browser session.  Every interaction reruns the script
   from the top; st.session_state (the scorer) survives the reruns. *)

Pages == {"Dashboard", "Single Check", "Batch Analysis", "How It Works"}

(* pickle.load fails and the exception leaves the function *)
App_load_scorer_reraise(unpickled) ==
    IF unpickled THEN "SimpleScorer" ELSE "None"

(* load_scorer: the unpickled scorer, or on any exception the fallback *)
App_load_scorer(unpickled) ==
    IF unpickled THEN "SimpleScorer" ELSE "AppFallbackScorer"

InitSession ==
    /\ program = "app"
    /\ scorer = "None"
    /\ transaction = EmptyRecord
    /\ total_score = 0
    /\ reasons = <<>>
    /\ result = NoResult
    /\ transactions = <<>>
    /\ batch_results = NotAnalyzed
    /\ top_risky = <<>>
    /\ risk_counts = NoCounts
    /\ rule_engine_score = 0
    /\ external_scores = NoExternal
    /\ unified_score = NotFused
    /\ risk_levels = RISK_LEVELS
    /\ self_rules = <<>>
    /\ calls = NoCalls
    /\ returned = {}
    /\ scenario_index = 0
    /\ sample_size = 0
    /\ entered = 0
    /\ n_txns = 0
    /\ analysed_rows = 0
    /\ page = "Dashboard"
    /\ phase = "waiting"
    /\ data = <<>>
    /\ row_index = 0
    /\ features = <<>>
    /\ labels = <<>>

(* an interaction starts a script run; the radio holds the selected page *)
StartRun ==
    /\ phase = "waiting"
    /\ page' \in Pages
    /\ phase' = "sidebar"
    /\ UNCHANGED <<program, scorer, score_vars, batch_vars, fusion_vars,
                   config_vars, scorer_vars, cli_vars, feature_vars>>

(* the run was started by 'Load Models': session_state.scorer is replaced
   and st.rerun() starts the script again, the button now unpressed *)
ClickLoadModels ==
    /\ phase = "sidebar"
    /\ \E unpickled \in BOOLEAN :
         /\ scorer' = App_load_scorer(unpickled)
         /\ self_rules' = RulesOf(scorer')
    /\ phase' = "ensure"
    /\ UNCHANGED <<program, score_vars, batch_vars, fusion_vars, config_vars,
                   call_vars, cli_vars, page, feature_vars>>

(* the button was not pressed *)
SidebarDone ==
    /\ phase = "sidebar"
    /\ phase' = "ensure"
    /\ UNCHANGED <<program, scorer, score_vars, batch_vars, fusion_vars,
                   config_vars, scorer_vars, cli_vars, page, feature_vars>>

(* if st.session_state.scorer is None: ... = load_scorer() *)
EnsureLoaded ==
    /\ phase = "ensure"
    /\ \E unpickled \in BOOLEAN :
         /\ scorer' = IF scorer = "None" THEN App_load_scorer(unpickled)
                      ELSE scorer
         /\ self_rules' = RulesOf(scorer')
    /\ phase' = "render"
    /\ UNCHANGED <<program, score_vars, batch_vars, fusion_vars, config_vars,
                   call_vars, cli_vars, page, feature_vars>>

(* page routing: a page without a pressed button scores nothing *)
RenderPage ==
    /\ phase = "render"
    /\ phase' = "waiting"
    /\ UNCHANGED <<program, scorer, score_vars, batch_vars, fusion_vars,
                   config_vars, scorer_vars, cli_vars, page, feature_vars>>

(* render_dashboard / render_single_check with a pressed button: the
   session's scorer scores a record *)
RenderAndScore ==
    /\ phase = "render"
    /\ page \in {"Dashboard", "Single Check"}
    /\ \E t \in SharedRecords :
         /\ transaction' = t
         /\ total_score' = UnclampedTotal(scorer, t)
         /\ reasons' = TriggeredReasons(scorer, t)
         /\ result' = calculate_final_score(scorer, t)
    /\ phase' = "waiting"
    /\ UNCHANGED <<program, scorer, batch_vars, fusion_vars, config_vars,
                   scorer_vars, cli_vars, page, feature_vars>>

NextSession ==
    \/ StartRun
    \/ ClickLoadModels
    \/ SidebarDone
    \/ EnsureLoaded
    \/ RenderPage
    \/ RenderAndScore

SessionSpec == InitSession /\ [][NextSession]_vars

(* C26: load_scorer returns a usable scorer in every case, and whenever a
   page is rendered, after any reruns and 'Load Models' clicks, the session
   holds a scorer. *)
C26_ScorerWhenRendering ==
    /\ \A unpickled \in BOOLEAN : App_load_scorer(unpickled) \in ScorerClasses
    /\ phase = "render" => scorer \in ScorerClasses

(* a page is about to be rendered with the fallback scorer, after an
   earlier run of this session has scored a record *)
C26_Witness ==
    /\ phase = "render"
    /\ scorer = "AppFallbackScorer"
    /\ page = "Single Check"
    /\ Scored

----------------------------------------------------------------------------
(* C27: the two fallback rule engines agree: for every feature record the
   fallback scorer of app.py and the one of scripts/04_run_demo.py return
   the same risk_score, risk_level and suggested_action. *)
C27_FallbacksAgree ==
    (Scored /\ scorer \in {"AppFallbackScorer", "DemoFallbackScorer"}) =>
        Core(App_calculate_final_score(transaction))
            = Core(Demo_calculate_final_score(transaction))

----------------------------------------------------------------------------
(* Vocabulary of the monotonicity property *)

RiskFactors == {"amount", "txns_last_1h", "is_new_recipient"}

(* LOW < MEDIUM < HIGH *)
TierRank(level) ==
    CASE level = "LOW" -> 0
      [] level = "MEDIUM" -> 1
      [] level = "HIGH" -> 2

(* the records that differ from t only in one risk factor, which is larger *)
Raised1(t) ==
    {[t EXCEPT ![k] = v] :
        <<k, v>> \in {kv \in (RiskFactors \cap DOMAIN t)
                               \X (AmountValues \cup TxnsValues) :
                          /\ kv[2] \in FieldValues(kv[1])
                          /\ kv[2] > t[kv[1]]}}

(* C29: the score is monotone in each risk factor.  A record that differs
   from the scored one only by a larger amount, a larger txns_last_1h or
   is_new_recipient 1 instead of 0 gets a score and a tier that are not
   lower, in each rule-set implementation. *)
C29_Monotone ==
    Scored =>
        \A t2 \in Raised1(transaction) :
            LET r2 == calculate_final_score(scorer, t2) IN
            /\ r2.risk_score >= result.risk_score
            /\ TierRank(r2.risk_level) >= TierRank(result.risk_level)

(* a scored record just below the velocity and amount thresholds *)
C29_Witness ==
    /\ Scored
    /\ scorer = "AppFallbackScorer"
    /\ transaction = [amount |-> 50000, hour |-> 15, txns_last_1h |-> 5,
                      is_new_recipient |-> 0]
    /\ result.risk_score = 30
    /\ Cardinality(Raised1(transaction)) >= 6

----------------------------------------------------------------------------
(* scripts/02_create_features.py: create_simple_features_from_csv.
   A CSV row is kept with what decides its fate: whether float(amount) and
   int(is_fraud) succeed, and the values they give.  Entries of features and
   labels carry the index of the row they were made from. *)

MaxRows == 3

CsvRows ==
    { [amount_ok |-> TRUE, amount |-> 1500, fraud_ok |-> TRUE, is_fraud |-> 0],
      [amount_ok |-> TRUE, amount |-> 20000, fraud_ok |-> TRUE, is_fraud |-> 1],
      [amount_ok |-> FALSE, amount |-> 0, fraud_ok |-> TRUE, is_fraud |-> 1],
      [amount_ok |-> TRUE, amount |-> 50001, fraud_ok |-> FALSE, is_fraud |-> 0],
      [amount_ok |-> TRUE, amount |-> 0 - 5, fraud_ok |-> TRUE, is_fraud |-> 0] }

(* the hours a timestamp gives, parsed or drawn at random *)
RowHours == {3, 15}

(* the statement of the try block that raises for the row, "" when none:
   float(amount), int(is_fraud), math.log1p(amount) for amount <= -1 *)
RowError(row) ==
    IF ~row.amount_ok THEN "float"
    ELSE IF ~row.fraud_ok THEN "int"
    ELSE IF row.amount <= 0 - 1 THEN "log1p"
    ELSE ""

(* the feature vector of a row: its entries computed from amount and hour
   (day_of_week, amount_log and user_hash do not bear on the lists) *)
feat(row, hour) ==
    [amount |-> row.amount,
     hour |-> hour,
     is_night |-> IF hour \in {0, 1, 2, 3, 4, 5, 23} THEN 1 ELSE 0,
     high_amount |-> IF row.amount > 10000 THEN 1 ELSE 0,
     suspicious_time |-> IF hour < 6 THEN 1 ELSE 0]

(* the feature vector appended as soon as the amount is converted *)
ProcessRow_early(row, i, hour, fl) ==
    IF ~row.amount_ok \/ row.amount <= 0 - 1 THEN fl
    ELSE IF ~row.fraud_ok
         THEN <<Append(fl[1], [row |-> i, feat |-> feat(row, hour)]), fl[2]>>
         ELSE <<Append(fl[1], [row |-> i, feat |-> feat(row, hour)]),
                Append(fl[2], [row |-> i, label |-> row.is_fraud])>>

(* the body of the loop for row i: <<features, labels>> after it *)
ProcessRow(row, i, hour, fl) ==
    IF RowError(row) # "" THEN fl
    ELSE <<Append(fl[1], [row |-> i, feat |-> feat(row, hour)]),
           Append(fl[2], [row |-> i, label |-> row.is_fraud])>>

InitFeatures ==
    /\ program = "create_features"
    /\ scorer = "None"
    /\ transaction = EmptyRecord
    /\ total_score = 0
    /\ reasons = <<>>
    /\ result = NoResult
    /\ transactions = <<>>
    /\ batch_results = NotAnalyzed
    /\ top_risky = <<>>
    /\ risk_counts = NoCounts
    /\ rule_engine_score = 0
    /\ external_scores = NoExternal
    /\ unified_score = NotFused
    /\ risk_levels = RISK_LEVELS
    /\ self_rules = <<>>
    /\ calls = NoCalls
    /\ returned = {}
    /\ scenario_index = 0
    /\ sample_size = 0
    /\ entered = 0
    /\ n_txns = 0
    /\ analysed_rows = 0
    /\ page = "Dashboard"
    /\ phase = "waiting"
    /\ data = <<>>
    /\ row_index = 0
    /\ features = <<>>
    /\ labels = <<>>

(* csv.DictReader delivers one more row *)
ReadRow ==
    /\ row_index = 0
    /\ Len(data) < MaxRows
    /\ \E row \in CsvRows : data' = Append(data, row)
    /\ UNCHANGED <<program, scorer, score_vars, batch_vars, fusion_vars,
                   config_vars, scorer_vars, cli_vars, session_vars,
                   row_index, features, labels>>

(* one iteration of "for i, row in enumerate(data)" *)
ProcessNextRow ==
    /\ row_index < Len(data)
    /\ row_index' = row_index + 1
    /\ \E hour \in RowHours :
         LET fl == ProcessRow(data[row_index'], row_index', hour,
                              <<features, labels>>)
         IN  /\ features' = fl[1]
             /\ labels' = fl[2]
    /\ UNCHANGED <<program, scorer, score_vars, batch_vars, fusion_vars,
                   config_vars, scorer_vars, cli_vars, session_vars, data>>

NextFeatures ==
    \/ ReadRow
    \/ ProcessNextRow

FeatureSpec == InitFeatures /\ [][NextFeatures]_vars

(* the rows among the first n of data that convert *)
Survivors(n) == {i \in 1..n : RowError(data[i]) = ""}

(* C30: a row whose amount or is_fraud cannot be converted is skipped and
   leaves no partial entry.  After any number of rows, features and labels
   have the same length, the i-th label and the i-th feature vector come
   from the same row and carry its values, the surviving rows are exactly
   the convertible ones, and they keep their input order. *)
C30_FeaturesLabelsAligned ==
    /\ Len(features) = Len(labels)
    /\ \A i \in 1..Len(features) :
         /\ features[i].row = labels[i].row
         /\ features[i].feat.amount = data[features[i].row].amount
         /\ labels[i].label = data[labels[i].row].is_fraud
    /\ \A i \in 1..Len(features) : \A j \in 1..Len(features) :
         i < j => features[i].row < features[j].row
    /\ {features[i].row : i \in 1..Len(features)} = Survivors(row_index)

(* three rows processed, the middle one with an is_fraud that does not
   convert: two entries survive *)
C30_Witness ==
    /\ row_index = 3
    /\ ~data[2].fraud_ok
    /\ Len(features) = 2
    /\ features[1].row = 1
    /\ features[2].row = 3
    /\ labels[2].label = 1

====
